---- MODULE Spec2Model ----
(***************************************************************************)
(* Local market simulation engine (services/local_sim_adapter.py):         *)
(* LocalSimAdapter keeps one in-memory copy of an account (cash,           *)
(* positions, orders, snapshots, price cache) and reloads it from the      *)
(* sandbox tables at the start of every account-scoped call.               *)
(*                                                                         *)
(* Arithmetic.  Money and prices are integers in units of 1/10000 dollar   *)
(* (the scale of the Numeric(15,4) columns); a float division is rounded   *)
(* to the nearest unit.  Numeric(15,2) rounds to 100 units.  None is the   *)
(* value -1.                                                               *)
(***************************************************************************)
EXTENDS Integers, Sequences, FiniteSets, TLC

VARIABLES
    cash,          \* self.cash
    start_cash,    \* self.start_cash
    positions,     \* self.positions : symbol -> [qty, avg_entry_price]
    orders,        \* self.orders : list of order dicts
    snapshots,     \* self.snapshots : order id -> snapshot
    price_cache,   \* self._price_cache : symbol -> [price, age] or NoCache
    db_accounts,   \* sandbox_accounts, keyed by user id
    db_positions,  \* sandbox_positions per account
    db_orders,     \* sandbox_orders per account, in insertion order
    db_trades,     \* trades
    next_id,       \* number of order ids handed out so far (uuid4 is fresh)
    ret,           \* what the call just made returned, and the orders it evaluated
    threads        \* the locals of the calls in progress on concurrent threads

vars == <<cash, start_cash, positions, orders, snapshots, price_cache,
          db_accounts, db_positions, db_orders, db_trades, next_id, ret,
          threads>>

----------------------------------------------------------------------------
(* Bounds of the model *)

MaxOrders == 2

(* Units *)
Scale == 10000
Dollar(n) == n * Scale

None == -1

DefaultUser == "u0"
OtherUser == "u1"
Users == {DefaultUser, OtherUser}

Symbols == {"AAA"}

DefaultBalance == Dollar(100000)
ResetBalances == {Dollar(200)}

(* Prices the quote source can answer, and the draws of the mock price      *)
(* 100.0 + random.uniform(-1, 1).                                           *)
PriceSet == {Dollar(98), Dollar(100)}
MockBase == Dollar(100)
MockSet == {MockBase - Dollar(1), MockBase + Dollar(1)}

(* Slippage draws of random.uniform(0.001, 0.005), in 1/1000.               *)
SlipMin == 1
SlipMax == 5
SlipSet == {SlipMin, SlipMax}

QtySet == {1, 2}
LimitPrice == Dollar(99)

TTL == 15

NoCache == [price |-> None, age |-> None]

(* The step of the transaction of _save_state at which the database fails  *)
(* in a call: none, after the balance update, after the positions are      *)
(* deleted, or while the orders are inserted.                              *)
NoFault == "none"
FaultSteps == {"balance", "positions", "orders"}
NoAccount == [starting_balance |-> None, current_balance |-> None]

----------------------------------------------------------------------------
(* Arithmetic helpers *)

RoundTo(x, step) == ((x + (step \div 2)) \div step) * step

(* Numeric(15,2) and Numeric(15,4) columns *)
Numeric2(x) == RoundTo(x, Scale \div 100)
Numeric4(x) == RoundTo(x, Scale \div 10000)

(* float division, rounded to the model's resolution *)
FDiv(a, b) == (2 * a + b) \div (2 * b)

----------------------------------------------------------------------------
(* The machine state the handlers transform: the adapter's fields, the     *)
(* tables, and the log of the orders evaluated by the running call.        *)

State ==
    [cash |-> cash, start_cash |-> start_cash, positions |-> positions,
     orders |-> orders, snapshots |-> snapshots, price_cache |-> price_cache,
     db_accounts |-> db_accounts, db_positions |-> db_positions,
     db_orders |-> db_orders, db_trades |-> db_trades,
     log |-> <<>>, dirty |-> FALSE, fault |-> NoFault]

EmptyPositions == [s \in {} |-> [qty |-> 0, avg_entry_price |-> 0]]
EmptySnapshots == [i \in {} |-> [symbol |-> "", fill_price |-> 0]]

AllOrderIds(dbo, us) == UNION {{dbo[u][i].id : i \in 1..Len(dbo[u])} : u \in us}

(* a reset that leaves the rows of the account in place *)
reset_account_keeps_rows(M, balance, uid) ==
    LET acct == [starting_balance |-> Numeric2(balance),
                 current_balance |-> Numeric2(balance)]
    IN [M EXCEPT
          !.cash = balance,
          !.start_cash = balance,
          !.positions = EmptyPositions,
          !.orders = <<>>,
          !.snapshots = EmptySnapshots,
          !.db_accounts = [@ EXCEPT ![uid] = acct]]

(* reset_account *)
reset_account(M, balance, uid) ==
    LET acct == [starting_balance |-> Numeric2(balance),
                 current_balance |-> Numeric2(balance)]
        had == M.db_accounts[uid] # NoAccount
    IN [M EXCEPT
          !.cash = balance,
          !.start_cash = balance,
          !.positions = EmptyPositions,
          !.orders = <<>>,
          !.snapshots = EmptySnapshots,
          !.db_accounts = [@ EXCEPT ![uid] = acct],
          !.db_orders = [@ EXCEPT ![uid] = <<>>],
          !.db_positions = [@ EXCEPT ![uid] = EmptyPositions],
          !.db_trades = IF had THEN {t \in @ : t.user_id # uid} ELSE @]

(* one SandboxOrder row as the order dict _load_state builds *)
LoadOrder(o) ==
    [id |-> o.id,
     symbol |-> o.symbol,
     qty |-> o.qty,
     side |-> o.side,
     type |-> o.order_type,
     status |-> o.status,
     limit_price |-> IF o.limit_price # None /\ o.limit_price # 0
                     THEN o.limit_price ELSE None,
     created_at |-> o.created_at,
     filled_qty |-> IF o.status = "filled" THEN o.qty ELSE 0,
     filled_avg_price |-> IF o.filled_price # None /\ o.filled_price # 0
                          THEN o.filled_price ELSE 0,
     filled_at |-> None]

(* _load_state *)
_load_state(M, uid) ==
    LET account == M.db_accounts[uid] IN
    IF account # NoAccount
    THEN [M EXCEPT
            !.cash = IF account.current_balance # None
                     THEN account.current_balance
                     ELSE account.starting_balance,
            !.start_cash = account.starting_balance,
            !.positions = M.db_positions[uid],
            !.orders = [i \in 1..Len(M.db_orders[uid]) |->
                          LoadOrder(M.db_orders[uid][i])]]
    ELSE reset_account(M, DefaultBalance, uid)

(* an order row written without its status (the column default) *)
SaveOrder_default_status(o) ==
    [id |-> o.id,
     symbol |-> o.symbol,
     side |-> o.side,
     qty |-> Numeric4(o.qty),
     order_type |-> o.type,
     limit_price |-> IF o.limit_price = None THEN None
                     ELSE Numeric4(o.limit_price),
     status |-> "new",
     filled_price |-> Numeric4(o.filled_avg_price),
     filled_at |-> o.filled_at,
     created_at |-> o.created_at]

(* one order dict as the SandboxOrder row _save_state inserts *)
SaveOrder(o) ==
    [id |-> o.id,
     symbol |-> o.symbol,
     side |-> o.side,
     qty |-> Numeric4(o.qty),
     order_type |-> o.type,
     limit_price |-> IF o.limit_price = None THEN None
                     ELSE Numeric4(o.limit_price),
     status |-> o.status,
     filled_price |-> Numeric4(o.filled_avg_price),
     filled_at |-> o.filled_at,
     created_at |-> o.created_at]

SavePosition(p) ==
    [qty |-> Numeric4(p.qty), avg_entry_price |-> Numeric4(p.avg_entry_price)]

(* a failed transaction whose changes so far stay in the tables *)
Rollback_partial(M, T) == T

(* except: session.rollback().  T is the state of the tables as the failed *)
(* transaction had changed them.                                           *)
Rollback(M, T) == M

(* _save_state: one transaction.  It fails at the step M.fault names, and  *)
(* on a primary-key violation on sandbox_orders (an order id that another  *)
(* account's row already has) while the orders are inserted.               *)
_save_state(M, uid) ==
    LET account == M.db_accounts[uid]
        memIds == {M.orders[i].id : i \in 1..Len(M.orders)}
        conflict == memIds \cap AllOrderIds(M.db_orders, Users \ {uid}) # {}
        rows == [i \in 1..Len(M.orders) |-> SaveOrder(M.orders[i])]
        T1 == [M EXCEPT !.db_accounts = [@ EXCEPT ![uid] =
                   [account EXCEPT !.current_balance = Numeric2(M.cash)]]]
        T2 == [T1 EXCEPT !.db_positions = [@ EXCEPT ![uid] = EmptyPositions]]
        T3 == [T2 EXCEPT !.db_positions = [@ EXCEPT ![uid] =
                   [s \in DOMAIN M.positions |-> SavePosition(M.positions[s])]]]
        T4 == [T3 EXCEPT !.db_orders = [@ EXCEPT ![uid] = <<>>]]
        T5 == [T4 EXCEPT !.db_orders = [@ EXCEPT ![uid] = rows]]
    IN IF account = NoAccount THEN M
       ELSE IF M.fault = "balance" THEN Rollback(M, T1)
       ELSE IF M.fault = "positions" THEN Rollback(M, T2)
       ELSE IF M.fault = "orders" \/ conflict THEN Rollback(M, T4)
       ELSE T5

(* _get_price.  a is the quote source's answer for the symbol: a price, or *)
(* a failure together with the draw the mock fallback would make.          *)
Answers ==
    [ok : {TRUE}, p : PriceSet] \cup [ok : {FALSE}, p : MockSet]

(* a lookup that lets the failure of the fetch through to its caller *)
_get_price_raises(M, symbol, a) ==
    LET c == M.price_cache[symbol] IN
    IF c # NoCache /\ c.age < TTL
    THEN [price |-> c.price, M |-> M, fetched |-> FALSE]
    ELSE IF a.ok
    THEN [price |-> a.p, fetched |-> TRUE,
          M |-> [M EXCEPT !.price_cache[symbol] = [price |-> a.p, age |-> 0]]]
    ELSE [price |-> None, M |-> M, fetched |-> TRUE]

(* a lookup that still trusts an entry that is exactly TTL old *)
_get_price_inclusive(M, symbol, a) ==
    LET c == M.price_cache[symbol] IN
    IF c # NoCache /\ c.age <= TTL
    THEN [price |-> c.price, M |-> M, fetched |-> FALSE]
    ELSE IF a.ok
    THEN [price |-> a.p, fetched |-> TRUE,
          M |-> [M EXCEPT !.price_cache[symbol] = [price |-> a.p, age |-> 0]]]
    ELSE [price |-> IF c # NoCache THEN c.price ELSE a.p, M |-> M,
          fetched |-> TRUE]

(* fetched tells whether the call went to the quote source *)
_get_price(M, symbol, a) ==
    LET c == M.price_cache[symbol] IN
    IF c # NoCache /\ c.age < TTL
    THEN [price |-> c.price, M |-> M, fetched |-> FALSE]
    ELSE IF a.ok
    THEN [price |-> a.p, fetched |-> TRUE,
          M |-> [M EXCEPT !.price_cache[symbol] = [price |-> a.p, age |-> 0]]]
    ELSE [price |-> IF c # NoCache THEN c.price ELSE a.p, M |-> M,
          fetched |-> TRUE]

(* _update_position with the entry price overwritten by the fill price *)
_update_position_overwrites(pos, symbol, qty_delta, price) ==
    LET cur == IF symbol \in DOMAIN pos THEN pos[symbol]
               ELSE [qty |-> 0, avg_entry_price |-> 0]
        new_qty == cur.qty + qty_delta
    IN IF new_qty = 0
       THEN [s \in DOMAIN pos \ {symbol} |-> pos[s]]
       ELSE [s \in DOMAIN pos \cup {symbol} |->
               IF s = symbol THEN [qty |-> new_qty, avg_entry_price |-> price]
               ELSE pos[s]]

(* an update that keeps the entry of a symbol whose quantity reaches 0 *)
_update_position_keeps_zero(pos, symbol, qty_delta, price) ==
    LET cur == IF symbol \in DOMAIN pos THEN pos[symbol]
               ELSE [qty |-> 0, avg_entry_price |-> 0]
        new_qty == cur.qty + qty_delta
        avg == IF qty_delta > 0 /\ new_qty # 0
               THEN FDiv(cur.qty * cur.avg_entry_price + qty_delta * price, new_qty)
               ELSE cur.avg_entry_price
    IN [s \in DOMAIN pos \cup {symbol} |->
          IF s = symbol THEN [qty |-> new_qty, avg_entry_price |-> avg]
          ELSE pos[s]]

(* _update_position *)
_update_position(pos, symbol, qty_delta, price) ==
    LET cur == IF symbol \in DOMAIN pos THEN pos[symbol]
               ELSE [qty |-> 0, avg_entry_price |-> 0]
        new_qty == cur.qty + qty_delta
        avg == IF qty_delta > 0
               THEN FDiv(cur.qty * cur.avg_entry_price + qty_delta * price, new_qty)
               ELSE cur.avg_entry_price
    IN IF new_qty = 0
       THEN [s \in DOMAIN pos \ {symbol} |-> pos[s]]
       ELSE [s \in DOMAIN pos \cup {symbol} |->
               IF s = symbol THEN [qty |-> new_qty, avg_entry_price |-> avg]
               ELSE pos[s]]

(* _record_trade: the Trade row and the snapshot are committed together;   *)
(* a Trade row with the same id makes the insert fail and nothing is kept. *)
_record_trade(M, order, fill_price) ==
    IF \E t \in M.db_trades : t.id = order.id THEN M
    ELSE [M EXCEPT
            !.db_trades = @ \cup {[id |-> order.id,
                                   user_id |-> DefaultUser,
                                   symbol |-> order.symbol,
                                   side |-> order.side,
                                   qty |-> Numeric4(order.qty),
                                   entry_price |-> Numeric4(fill_price)]},
            !.snapshots = [i \in DOMAIN M.snapshots \cup {order.id} |->
                             IF i = order.id
                             THEN [symbol |-> order.symbol, fill_price |-> fill_price]
                             ELSE M.snapshots[i]]]

PosOf(pos, symbol) ==
    IF symbol \in DOMAIN pos THEN pos[symbol]
    ELSE [qty |-> 0, avg_entry_price |-> 0]

(* cost = qty * price *)
FillCost(qty, price) == qty * price

(* the funds test with any positive cash accepted *)
HasFunds_any_cash(c, cost) == c > 0

(* if self.cash >= cost *)
HasFunds(c, cost) == c >= cost

(* the holding test with the quantity ignored *)
HasHolding_unchecked(pos, symbol, qty) ==
    IF symbol \in DOMAIN pos THEN pos[symbol].qty >= 0 ELSE TRUE

(* pos = self.positions.get(symbol, {'qty': 0}); if pos['qty'] >= qty *)
HasHolding(pos, symbol, qty) == PosOf(pos, symbol).qty >= qty

CanFill(M, symbol, side, qty, cost) ==
    IF side = "buy" THEN HasFunds(M.cash, cost)
    ELSE HasHolding(M.positions, symbol, qty)

(* the trigger test with strict comparisons *)
Triggered_strict(type, side, price, limit_price) ==
    /\ type = "limit"
    /\ \/ side = "buy" /\ price < limit_price
       \/ side = "sell" /\ price > limit_price

(* a trigger test under which a stop order triggers at any price *)
Triggered_stop(type, side, price, limit_price) ==
    \/ type = "stop"
    \/ /\ type = "limit"
       /\ \/ side = "buy" /\ price <= limit_price
          \/ side = "sell" /\ price >= limit_price

(* the trigger test of _match_orders *)
Triggered(type, side, price, limit_price) ==
    /\ type = "limit"
    /\ \/ side = "buy" /\ price <= limit_price
       \/ side = "sell" /\ price >= limit_price

(* a fill that debits or credits the price, not qty * price *)
ApplyFill_unit_cost(M, symbol, side, qty, price) ==
    [M EXCEPT
       !.cash = IF side = "buy" THEN @ - price ELSE @ + price,
       !.positions = _update_position(@, symbol,
                        IF side = "buy" THEN qty ELSE -qty, price)]

(* the debit or credit of a fill and its position update *)
ApplyFill(M, symbol, side, qty, price) ==
    LET cost == FillCost(qty, price) IN
    [M EXCEPT
       !.cash = IF side = "buy" THEN @ - cost ELSE @ + cost,
       !.positions = _update_position(@, symbol,
                        IF side = "buy" THEN qty ELSE -qty, price)]

(* the log entry of one order a call evaluated (a ghost of the call):      *)
(* the status it was left with, the price obtained for it (ref), the price *)
(* it was executed at, and cash and position before and after it           *)
LogEntry(via, order, status, price, ref, M0, M1) ==
    [via |-> via, id |-> order.id, symbol |-> order.symbol, side |-> order.side,
     qty |-> order.qty, type |-> order.type, limit_price |-> order.limit_price,
     status |-> status, price |-> price, ref |-> ref,
     cash_before |-> M0.cash, cash_after |-> M1.cash,
     pos_before |-> PosOf(M0.positions, order.symbol),
     pos_after |-> PosOf(M1.positions, order.symbol)]

(* the body of the loop of _match_orders for the order at index i *)
MatchOne(M, i, ans, now) ==
    LET order == M.orders[i]
        symbol == order.symbol
        r == _get_price(M, symbol, ans[symbol])
        price == r.price
        M1 == r.M
        qty == order.qty
        side == order.side
        triggered == Triggered(order.type, side, price, order.limit_price)
        cost == FillCost(qty, price)
        filled == [order EXCEPT !.status = "filled",
                                !.filled_avg_price = price,
                                !.filled_qty = qty,
                                !.filled_at = now]
        rejected == [order EXCEPT !.status = "rejected"]
        Mfill == [ApplyFill(M1, symbol, side, qty, price) EXCEPT
                    !.orders[i] = filled, !.dirty = TRUE]
        Mrec == _record_trade(Mfill, filled, price)
        Mrej == [M1 EXCEPT !.orders[i] = rejected, !.dirty = TRUE]
        Log(status, Ma) ==
            [Ma EXCEPT !.log =
               Append(@, LogEntry("match", order, status, price, price, M1, Ma))]
    IN IF order.status # "new" THEN M
       ELSE IF ~triggered THEN Log("new", M1)
       ELSE IF CanFill(M1, symbol, side, qty, cost) THEN Log("filled", Mrec)
       ELSE Log("rejected", Mrej)

RECURSIVE MatchLoop(_, _, _, _)
MatchLoop(M, i, ans, now) ==
    IF i > Len(M.orders) THEN M
    ELSE MatchLoop(MatchOne(M, i, ans, now), i + 1, ans, now)

(* a call that runs no matching pass *)
_match_orders_skipped(M, ans, now) == M

(* a pass that saves whether or not an order left new *)
_match_orders_always_saves(M, ans, now) ==
    LET M1 == MatchLoop([M EXCEPT !.dirty = FALSE], 1, ans, now)
    IN _save_state(M1, DefaultUser)

(* _match_orders *)
_match_orders(M, ans, now) ==
    LET M1 == MatchLoop([M EXCEPT !.dirty = FALSE], 1, ans, now)
    IN IF M1.dirty THEN _save_state(M1, DefaultUser) ELSE M1

(* the price lookups of the loops over self.positions *)
RECURSIVE PriceAll(_, _, _)
PriceAll(M, syms, ans) ==
    IF syms = {} THEN M
    ELSE LET s == CHOOSE x \in syms : TRUE
         IN PriceAll(_get_price(M, s, ans[s]).M, syms \ {s}, ans)

(* positions valued at their entry price *)
RECURSIVE MarketValue_at_cost(_, _, _)
MarketValue_at_cost(M, syms, ans) ==
    IF syms = {} THEN 0
    ELSE LET s == CHOOSE x \in syms : TRUE
         IN M.positions[s].qty * M.positions[s].avg_entry_price
            + MarketValue_at_cost(M, syms \ {s}, ans)

RECURSIVE MarketValue(_, _, _)
MarketValue(M, syms, ans) ==
    IF syms = {} THEN 0
    ELSE LET s == CHOOSE x \in syms : TRUE
         IN M.positions[s].qty * _get_price(M, s, ans[s]).price
            + MarketValue(M, syms \ {s}, ans)

----------------------------------------------------------------------------
(* Results of the calls *)

NoOrder ==
    [id |-> 0, symbol |-> "", qty |-> 0, side |-> "", type |-> "",
     limit_price |-> None, status |-> "none", created_at |-> None,
     filled_qty |-> 0, filled_avg_price |-> 0, filled_at |-> None]

NoPrices == [s \in Symbols |-> None]

NoRequest ==
    [symbol |-> "", qty |-> 0, side |-> "", type |-> "", limit_price |-> None]

NoAnswer == [ok |-> FALSE, p |-> None]

(* the value a call returns, with the ghosts of the call; for a price      *)
(* lookup: the answer of the quote source, whether it was asked, and the   *)
(* cache entry before and after                                            *)
RetBase ==
    [op |-> "init", uid |-> DefaultUser, outcome |-> "ok", req |-> NoRequest,
     ref |-> None, order |-> NoOrder, cash |-> 0, equity |-> 0,
     portfolio_value |-> 0, px |-> NoPrices, list |-> <<>>, log |-> <<>>,
     ans |-> NoAnswer, fetched |-> FALSE,
     cache_before |-> NoCache, cache_after |-> NoCache]

(* slippage applied upwards to both sides *)
Slipped_up(price, side, slip) == FDiv(price * (1000 + slip), 1000)

(* the price with the market order's slippage applied, slip in 1/1000 *)
Slipped(price, side, slip) ==
    IF side = "buy" THEN FDiv(price * (1000 + slip), 1000)
    ELSE FDiv(price * (1000 - slip), 1000)

(* the submission without its buying-power validation *)
Refused_never(side, qty, price, c) == FALSE

(* if side == "buy": cost = qty * price; if cost > self.cash: raise *)
Refused(side, qty, price, c) == side = "buy" /\ qty * price > c

(* every type executed at once *)
SubmitStatus_immediate(type, can) == IF can THEN "filled" ELSE "rejected"

(* the status a submission ends with *)
SubmitStatus(type, can) ==
    IF type = "market" THEN (IF can THEN "filled" ELSE "rejected") ELSE "new"

(* submit_order; the result is the state left and the value returned *)
submit_order(M, symbol, qty, side, type, limit_price, uid, a, slip, order_id) ==
    LET M1 == _load_state(M, uid)
        r == _get_price(M1, symbol, a)
        ref == r.price
        M2 == r.M
        price == IF type = "market" THEN Slipped(ref, side, slip) ELSE ref
        cost == FillCost(qty, price)
        status == SubmitStatus(type, CanFill(M2, symbol, side, qty, cost))
        order == [id |-> order_id,
                  symbol |-> symbol,
                  qty |-> qty,
                  side |-> side,
                  type |-> type,
                  limit_price |-> limit_price,
                  status |-> status,
                  created_at |-> order_id,
                  filled_qty |-> IF type = "market" THEN qty ELSE 0,
                  filled_avg_price |-> IF type = "market" THEN price ELSE 0,
                  filled_at |-> IF status = "filled" THEN order_id ELSE None]
        M3 == IF status = "filled" THEN ApplyFill(M2, symbol, side, qty, price)
              ELSE M2
        M4 == [M3 EXCEPT !.orders = Append(@, order)]
        M5 == IF status = "filled" THEN _record_trade(M4, order, price) ELSE M4
        M6 == [M5 EXCEPT !.log =
                 Append(@, LogEntry("submit", order, status, price, ref, M2, M5))]
        M7 == _save_state(M6, uid)
        base == [RetBase EXCEPT
                   !.op = "submit_order", !.uid = uid, !.ref = ref,
                   !.req = [symbol |-> symbol, qty |-> qty, side |-> side,
                            type |-> type, limit_price |-> limit_price]]
    IN IF Refused(side, qty, ref, M2.cash)
       THEN [M |-> M2, ret |-> [base EXCEPT !.outcome = "ValueError",
                                            !.cash = M2.cash]]
       ELSE [M |-> M7, ret |-> [base EXCEPT !.order = order,
                                            !.cash = M7.cash,
                                            !.log = M7.log]]

(* get_account *)
get_account(M, uid, ans, ans2, now) ==
    LET M1 == _load_state(M, uid)
        M2 == _match_orders(M1, ans, now)
        syms == DOMAIN M2.positions
        equity == M2.cash + MarketValue(M2, syms, ans2)
        M3 == PriceAll(M2, syms, ans2)
    IN [M |-> M3,
        ret |-> [RetBase EXCEPT
                   !.op = "get_account", !.uid = uid,
                   !.cash = M3.cash,
                   !.equity = equity, !.portfolio_value = equity,
                   !.px = [s \in Symbols |->
                             IF s \in syms THEN _get_price(M2, s, ans2[s]).price
                             ELSE None],
                   !.log = M3.log]]

(* get_positions; list holds the returned rows *)
get_positions(M, uid, ans, ans2, now) ==
    LET M1 == _load_state(M, uid)
        M2 == _match_orders(M1, ans, now)
        syms == {s \in DOMAIN M2.positions : M2.positions[s].qty # 0}
        M3 == PriceAll(M2, syms, ans2)
        Row(s) ==
            LET pos == M2.positions[s]
                current_price == _get_price(M2, s, ans2[s]).price
            IN [symbol |-> s, qty |-> pos.qty,
                side |-> IF pos.qty > 0 THEN "long" ELSE "short",
                market_value |-> pos.qty * current_price,
                avg_entry_price |-> pos.avg_entry_price,
                current_price |-> current_price,
                unrealized_pl |-> pos.qty * current_price
                                   - pos.qty * pos.avg_entry_price]
    IN [M |-> M3,
        ret |-> [RetBase EXCEPT
                   !.op = "get_positions", !.uid = uid,
                   !.cash = M3.cash,
                   !.px = [s \in Symbols |->
                             IF s \in syms THEN _get_price(M2, s, ans2[s]).price
                             ELSE None],
                   !.list = {Row(s) : s \in syms},
                   !.log = M3.log]]

(* sorted(filtered, key=created_at, reverse=True) *)
RECURSIVE SortedDesc(_)
SortedDesc(S) ==
    IF S = {} THEN <<>>
    ELSE LET o == CHOOSE x \in S : \A y \in S : y.created_at <= x.created_at
         IN <<o>> \o SortedDesc(S \ {o})

(* list_orders *)
list_orders(M, status, limit, uid) ==
    LET M1 == _load_state(M, uid)
        filtered == {M1.orders[i] : i \in
                       {j \in 1..Len(M1.orders) :
                          status = "all" \/ M1.orders[j].status = status}}
        sorted == SortedDesc(filtered)
    IN [M |-> M1,
        ret |-> [RetBase EXCEPT
                   !.op = "list_orders", !.uid = uid,
                   !.cash = M1.cash,
                   !.list = SubSeq(sorted, 1,
                              IF Len(sorted) < limit THEN Len(sorted) ELSE limit)]]

(* get_trade_snapshot: self.snapshots.get(order_id, {}) *)
NoSnapshot == [symbol |-> "", fill_price |-> None]

get_trade_snapshot(M, order_id) ==
    IF order_id \in DOMAIN M.snapshots THEN M.snapshots[order_id]
    ELSE NoSnapshot

----------------------------------------------------------------------------
(* The state machine *)

Install(res) ==
    /\ cash' = res.M.cash
    /\ start_cash' = res.M.start_cash
    /\ positions' = res.M.positions
    /\ orders' = res.M.orders
    /\ snapshots' = res.M.snapshots
    /\ price_cache' = res.M.price_cache
    /\ db_accounts' = res.M.db_accounts
    /\ db_positions' = res.M.db_positions
    /\ db_orders' = res.M.db_orders
    /\ db_trades' = res.M.db_trades
    /\ ret' = res.ret
    /\ UNCHANGED threads

(* Two request threads of the server share the one adapter object.  A      *)
(* thread's locals: where it is in submit_order, its arguments, the quote  *)
(* the source has for it, its slippage draw, its order id, and the price,  *)
(* cost and status it has computed.  start is the state both calls began   *)
(* from.                                                                   *)
Threads == {1, 2}

NoThread ==
    [pc |-> "idle", rq |-> NoRequest, a |-> NoAnswer, slip |-> SlipMin,
     id |-> 0, ref |-> None, price |-> None, status |-> "none"]

NoStart == [cash |-> None]

NoThreads == [th |-> [t \in Threads |-> NoThread], start |-> NoStart]

(* LocalSimAdapter() on empty tables: __init__ loads the default user,     *)
(* finds no account and creates it with the default balance.               *)
Init ==
    /\ cash = DefaultBalance
    /\ start_cash = DefaultBalance
    /\ positions = EmptyPositions
    /\ orders = <<>>
    /\ snapshots = EmptySnapshots
    /\ price_cache = [s \in Symbols |-> NoCache]
    /\ db_accounts = [u \in Users |->
                        IF u = DefaultUser
                        THEN [starting_balance |-> Numeric2(DefaultBalance),
                              current_balance |-> Numeric2(DefaultBalance)]
                        ELSE NoAccount]
    /\ db_positions = [u \in Users |-> EmptyPositions]
    /\ db_orders = [u \in Users |-> <<>>]
    /\ db_trades = {}
    /\ next_id = 0
    /\ ret = RetBase
    /\ threads = NoThreads

(* The requests a user submits.  The default user submits every kind,     *)
(* sells of 2 included (more than a buy of 1 leaves it with); the other    *)
(* user a limit buy.                                                       *)
Request(qty, side, type, limit_price) ==
    [qty |-> qty, side |-> side, type |-> type, limit_price |-> limit_price]

LimitOf(type) == IF type = "limit" THEN LimitPrice ELSE None

Requests(uid) ==
    IF uid = DefaultUser
    THEN {Request(q, "buy", ty, LimitOf(ty)) : q \in QtySet, ty \in {"market", "limit"}}
         \cup {Request(1, "sell", ty, LimitOf(ty)) : ty \in {"market", "limit"}}
         \cup {Request(1, "buy", "stop", None),
               Request(2, "sell", "market", None)}
    ELSE {Request(1, "buy", "limit", LimitPrice)}

(* the state a call starts from when the database fails at step f of a save *)
Faulty(f) == [State EXCEPT !.fault = f]

SubmitOrderBy(US, FS) ==
    \E uid \in US, f \in FS, symbol \in Symbols, a \in Answers :
      \E rq \in Requests(uid) :
        \E slip \in (IF rq.type = "market" THEN SlipSet ELSE {SlipMin}) :
          LET res == submit_order(Faulty(f), symbol, rq.qty, rq.side, rq.type,
                                  rq.limit_price, uid, a, slip, next_id + 1)
          IN /\ next_id < MaxOrders
             /\ Install(res)
             /\ next_id' = IF res.ret.outcome = "ok" THEN next_id + 1 ELSE next_id

SubmitOrder == SubmitOrderBy(Users, {NoFault})

(* the answers to the second lookups of a call: the same quote, or a      *)
(* failure again with a fresh draw of the mock price                       *)
Again(ans) ==
    {b \in [Symbols -> Answers] :
       \A s \in Symbols : IF ans[s].ok THEN b[s] = ans[s] ELSE ~b[s].ok}

GetAccountBy(US, FS) ==
    \E uid \in US, f \in FS, ans \in [Symbols -> Answers] :
      \E ans2 \in Again(ans) :
        /\ Install(get_account(Faulty(f), uid, ans, ans2, next_id))
        /\ UNCHANGED next_id

GetAccount == GetAccountBy(Users, {NoFault})

GetPositionsBy(US, FS) ==
    \E uid \in US, f \in FS, ans \in [Symbols -> Answers] :
      \E ans2 \in Again(ans) :
        /\ Install(get_positions(Faulty(f), uid, ans, ans2, next_id))
        /\ UNCHANGED next_id

GetPositions == GetPositionsBy(Users, {NoFault})

ListOrdersBy(US) ==
    \E uid \in US :
      /\ Install(list_orders(State, "all", 50, uid))
      /\ UNCHANGED next_id

ListOrders == ListOrdersBy(Users)

(* the settings router resets the demo (default) user *)
ResetAccount ==
    \E uid \in {DefaultUser}, balance \in ResetBalances :
      /\ Install([M |-> reset_account(State, balance, uid),
                  ret |-> [RetBase EXCEPT !.op = "reset_account", !.uid = uid,
                                          !.cash = balance]])
      /\ UNCHANGED next_id

(* time passes between two calls: the cached quotes reach the TTL *)
Tick ==
    /\ \E s \in Symbols : price_cache[s] # NoCache /\ price_cache[s].age < TTL
    /\ price_cache' = [s \in Symbols |->
                         IF price_cache[s] = NoCache THEN NoCache
                         ELSE [price_cache[s] EXCEPT !.age = TTL]]
    /\ ret' = [RetBase EXCEPT !.op = "tick"]
    /\ UNCHANGED <<cash, start_cash, positions, orders, snapshots, db_accounts,
                   db_positions, db_orders, db_trades, next_id, threads>>

Next ==
    \/ SubmitOrder
    \/ GetAccount
    \/ GetPositions
    \/ ListOrders
    \/ ResetAccount
    \/ Tick

Spec == Init /\ [][Next]_vars

(* The price oracle alone: lookups, and time passing in steps of           *)
(* ElapseStep seconds up to MaxAge.                                        *)
ElapseStep == 5
MaxAge == 20

GetPrice ==
    \E symbol \in Symbols, a \in Answers :
      LET r == _get_price(State, symbol, a)
      IN /\ Install([M |-> r.M,
                     ret |-> [RetBase EXCEPT
                                !.op = "get_price",
                                !.outcome = IF r.price = None THEN "raised"
                                            ELSE "ok",
                                !.ref = r.price,
                                !.ans = a,
                                !.fetched = r.fetched,
                                !.cache_before = price_cache[symbol],
                                !.cache_after = r.M.price_cache[symbol]]])
         /\ UNCHANGED next_id

Elapse ==
    /\ \E s \in Symbols : price_cache[s] # NoCache /\ price_cache[s].age < MaxAge
    /\ price_cache' = [s \in Symbols |->
                         IF price_cache[s] = NoCache \/ price_cache[s].age >= MaxAge
                         THEN price_cache[s]
                         ELSE [price_cache[s] EXCEPT !.age = @ + ElapseStep]]
    /\ UNCHANGED <<cash, start_cash, positions, orders, snapshots, db_accounts,
                   db_positions, db_orders, db_trades, next_id, ret, threads>>

NextOracle == GetPrice \/ Elapse

SpecOracle == Init /\ [][NextOracle]_vars

(* Two submit_order calls of the default user on two threads, interleaved  *)
(* at the statements of submit_order: the load, the price lookup with the  *)
(* buying-power validation, the funds test, the mutation of cash and       *)
(* position, the append of the order with its trade record, the save.      *)
ConcRequests == {Request(q, "buy", "market", None) : q \in QtySet}

AllIdle == \A t \in Threads : threads.th[t].pc = "idle"

AllDone == \A t \in Threads : threads.th[t].pc = "done"

Run(M, t, loc) ==
    /\ cash' = M.cash
    /\ start_cash' = M.start_cash
    /\ positions' = M.positions
    /\ orders' = M.orders
    /\ snapshots' = M.snapshots
    /\ price_cache' = M.price_cache
    /\ db_accounts' = M.db_accounts
    /\ db_positions' = M.db_positions
    /\ db_orders' = M.db_orders
    /\ db_trades' = M.db_trades
    /\ threads' = [threads EXCEPT !.th[t] = loc]
    /\ UNCHANGED <<next_id, ret>>

(* the reset of the settings page, before the two requests arrive *)
ConcReset == AllIdle /\ next_id = 0 /\ ResetAccount

(* both requests arrive; the source has one quote for the symbol *)
ConcBegin ==
    /\ AllIdle
    /\ \E a \in Answers, rqs \in [Threads -> ConcRequests] :
         threads' = [th |-> [t \in Threads |->
                               [NoThread EXCEPT
                                  !.pc = "load",
                                  !.rq = [symbol |-> "AAA",
                                          qty |-> rqs[t].qty,
                                          side |-> rqs[t].side,
                                          type |-> rqs[t].type,
                                          limit_price |-> rqs[t].limit_price],
                                  !.a = a,
                                  !.id = next_id + t]],
                     start |-> State]
    /\ next_id' = next_id + 2
    /\ UNCHANGED <<cash, start_cash, positions, orders, snapshots, price_cache,
                   db_accounts, db_positions, db_orders, db_trades, ret>>

(* self._load_state(target_uid) *)
ConcLoad(t) ==
    LET loc == threads.th[t] IN
    /\ loc.pc = "load"
    /\ Run(_load_state(State, DefaultUser), t, [loc EXCEPT !.pc = "price"])

(* price = self._get_price(symbol); the validation of a buy; the slippage *)
ConcPrice(t) ==
    LET loc == threads.th[t]
        rq == loc.rq
        r == _get_price(State, rq.symbol, loc.a)
        price == IF rq.type = "market" THEN Slipped(r.price, rq.side, loc.slip)
                 ELSE r.price
    IN /\ loc.pc = "price"
       /\ Run(r.M, t,
              IF Refused(rq.side, rq.qty, r.price, r.M.cash)
              THEN [loc EXCEPT !.pc = "done", !.ref = r.price,
                               !.status = "ValueError"]
              ELSE IF rq.type = "market"
              THEN [loc EXCEPT !.pc = "check", !.ref = r.price, !.price = price]
              ELSE [loc EXCEPT !.pc = "append", !.ref = r.price,
                               !.price = price, !.status = "new"])

(* if self.cash >= cost / if curr_pos["qty"] >= qty *)
ConcCheck(t) ==
    LET loc == threads.th[t]
        rq == loc.rq
        can == CanFill(State, rq.symbol, rq.side, rq.qty,
                       FillCost(rq.qty, loc.price))
    IN /\ loc.pc = "check"
       /\ Run(State, t,
              IF can THEN [loc EXCEPT !.pc = "mutate", !.status = "filled"]
              ELSE [loc EXCEPT !.pc = "append", !.status = "rejected"])

(* self.cash -= cost; self._update_position(...) *)
ConcMutate(t) ==
    LET loc == threads.th[t]
        rq == loc.rq
    IN /\ loc.pc = "mutate"
       /\ Run(ApplyFill(State, rq.symbol, rq.side, rq.qty, loc.price), t,
              [loc EXCEPT !.pc = "append"])

ConcOrder(loc) ==
    [id |-> loc.id,
     symbol |-> loc.rq.symbol,
     qty |-> loc.rq.qty,
     side |-> loc.rq.side,
     type |-> loc.rq.type,
     limit_price |-> loc.rq.limit_price,
     status |-> loc.status,
     created_at |-> loc.id,
     filled_qty |-> IF loc.rq.type = "market" THEN loc.rq.qty ELSE 0,
     filled_avg_price |-> IF loc.rq.type = "market" THEN loc.price ELSE 0,
     filled_at |-> IF loc.status = "filled" THEN loc.id ELSE None]

(* self.orders.append(order); if filled: self._record_trade(...) *)
ConcAppend(t) ==
    LET loc == threads.th[t]
        order == ConcOrder(loc)
        M1 == [State EXCEPT !.orders = Append(@, order)]
        M2 == IF loc.status = "filled" THEN _record_trade(M1, order, loc.price)
              ELSE M1
    IN /\ loc.pc = "append"
       /\ Run(M2, t, [loc EXCEPT !.pc = "save"])

(* self._save_state(target_uid); return order *)
ConcSave(t) ==
    LET loc == threads.th[t] IN
    /\ loc.pc = "save"
    /\ Run(_save_state(State, DefaultUser), t, [loc EXCEPT !.pc = "done"])

NextConc ==
    \/ ConcReset
    \/ ConcBegin
    \/ \E t \in Threads : ConcLoad(t)
    \/ \E t \in Threads : ConcPrice(t)
    \/ \E t \in Threads : ConcCheck(t)
    \/ \E t \in Threads : ConcMutate(t)
    \/ \E t \in Threads : ConcAppend(t)
    \/ \E t \in Threads : ConcSave(t)

SpecConc == Init /\ [][NextConc]_vars

(* The order route of the API: POST /trade/order.  The body is any        *)
(* OrderRequest (side and type are strings, qty a float); the route        *)
(* refuses a side other than buy or sell, the risk firewall may block the  *)
(* order, and everything else goes to the adapter, whose ValueError        *)
(* becomes a 400.                                                          *)
ApiSides == {"buy", "sell"}
ApiTypes == {"market", "limit"}
ApiQtys == {1, 2}

(* the well-formed bodies, and bodies with a side, a type or a quantity    *)
(* that is not                                                             *)
ApiRequests ==
    [side : ApiSides, type : ApiTypes, qty : ApiQtys]
    \cup [side : {"hold"}, type : {"market"}, qty : {1}]
    \cup [side : {"buy"}, type : {"bogus"}, qty : {1}]
    \cup [side : ApiSides, type : ApiTypes, qty : {-1}]
    \cup [side : {"buy"}, type : {"market"}, qty : {0}]

(* a route that reports the adapter's ValueError as a server error *)
post_order_500(M, rq, blocked, a, slip, order_id) ==
    LET base == [RetBase EXCEPT !.op = "post_order", !.req = rq]
        res == submit_order(M, rq.symbol, rq.qty, rq.side, rq.type,
                            rq.limit_price, DefaultUser, a, slip, order_id)
    IN IF rq.side \notin {"buy", "sell"}
       THEN [M |-> M, ret |-> [base EXCEPT !.outcome = "HTTP400"]]
       ELSE IF blocked
       THEN [M |-> M, ret |-> [base EXCEPT !.outcome = "HTTP403"]]
       ELSE IF res.ret.outcome = "ValueError"
       THEN [M |-> res.M, ret |-> [base EXCEPT !.outcome = "HTTP500",
                                               !.ref = res.ret.ref,
                                               !.cash = res.ret.cash]]
       ELSE [M |-> res.M, ret |-> [res.ret EXCEPT !.op = "post_order"]]

post_order(M, rq, blocked, a, slip, order_id) ==
    LET base == [RetBase EXCEPT !.op = "post_order", !.req = rq]
        res == submit_order(M, rq.symbol, rq.qty, rq.side, rq.type,
                            rq.limit_price, DefaultUser, a, slip, order_id)
    IN IF rq.side \notin {"buy", "sell"}
       THEN [M |-> M, ret |-> [base EXCEPT !.outcome = "HTTP400"]]
       ELSE IF blocked
       THEN [M |-> M, ret |-> [base EXCEPT !.outcome = "HTTP403"]]
       ELSE IF res.ret.outcome = "ValueError"
       THEN [M |-> res.M, ret |-> [base EXCEPT !.outcome = "HTTP400",
                                               !.ref = res.ret.ref,
                                               !.cash = res.ret.cash]]
       ELSE [M |-> res.M, ret |-> [res.ret EXCEPT !.op = "post_order"]]

PostOrder ==
    \E body \in ApiRequests, blocked \in BOOLEAN, a \in Answers,
       slip \in {SlipMin} :
      LET rq == [symbol |-> "AAA", qty |-> body.qty, side |-> body.side,
                 type |-> body.type, limit_price |-> LimitOf(body.type)]
          res == post_order(State, rq, blocked, a, slip, next_id + 1)
      IN /\ next_id < MaxOrders
         /\ Install(res)
         /\ next_id' = IF res.ret.outcome = "ok" THEN next_id + 1 ELSE next_id

ApiReset == next_id = 0 /\ ResetAccount

NextApi ==
    \/ PostOrder
    \/ ApiReset
    \/ Tick

SpecApi == Init /\ [][NextApi]_vars

(* The default user alone, with a database that can fail during a save:   *)
(* at any step of the save of a submission, and while the orders are      *)
(* inserted in the save of a matching pass.                               *)
FaultySubmitOrder == SubmitOrderBy({DefaultUser}, {NoFault} \cup FaultSteps)

FaultyGetAccount == GetAccountBy({DefaultUser}, {NoFault, "orders"})

OwnGetPositions == GetPositionsBy({DefaultUser}, {NoFault})

OwnListOrders == ListOrdersBy({DefaultUser})

NextFault ==
    \/ FaultySubmitOrder
    \/ FaultyGetAccount
    \/ OwnGetPositions
    \/ OwnListOrders
    \/ ResetAccount
    \/ Tick

SpecFault == Init /\ [][NextFault]_vars

----------------------------------------------------------------------------
(* Properties *)

Log == {ret.log[i] : i \in 1..Len(ret.log)}

Accounts == {u \in Users : db_accounts[u] # NoAccount}

Abs(x) == IF x < 0 THEN -x ELSE x

(* C1: cash is never negative, in memory and in every stored account, and  *)
(* a buy is debited only when cash >= qty * fill price, at submission and  *)
(* in a matching pass.                                                     *)
C1_CashNeverNegative ==
    /\ cash >= 0
    /\ \A u \in Accounts : db_accounts[u].current_balance >= 0
    /\ \A e \in Log :
         /\ e.cash_before >= 0 /\ e.cash_after >= 0
         /\ e.side = "buy" /\ e.cash_after # e.cash_before =>
              /\ e.status = "filled"
              /\ e.cash_before >= e.qty * e.price
              /\ e.cash_after = e.cash_before - e.qty * e.price

(* a buy was filled and what is left does not pay for the same buy again *)
C1_Witness ==
    \E e \in Log : /\ e.side = "buy" /\ e.status = "filled"
                   /\ e.cash_after < e.qty * e.price
                   /\ cash = e.cash_after

(* what _load_state gives a call for user u: the stored balance and        *)
(* positions, or the default balance of an account it has to create        *)
StoredCash(u) ==
    IF db_accounts[u] = NoAccount THEN DefaultBalance
    ELSE db_accounts[u].current_balance

Last(s) == s[Len(s)]

(* the submission left nothing behind: no order, cash and positions as     *)
(* they were stored                                                        *)
NothingStored(u) ==
    /\ next_id' = next_id
    /\ db_orders' = db_orders
    /\ db_positions' = db_positions
    /\ db_accounts'[u].current_balance = StoredCash(u)
    /\ cash' = StoredCash(u)
    /\ positions' = db_positions[u]
    /\ Len(orders') = Len(db_orders[u])

(* the submission stored its order and left cash and positions as they     *)
(* were stored                                                             *)
StoredUntouched(u, status) ==
    /\ ret'.outcome = "ok"
    /\ ret'.order.status = status
    /\ Last(orders') = ret'.order
    /\ Len(db_orders'[u]) = Len(db_orders[u]) + 1
    /\ Last(db_orders'[u]).id = ret'.order.id
    /\ Last(db_orders'[u]).status = status
    /\ db_positions'[u] = db_positions[u]
    /\ db_accounts'[u].current_balance = StoredCash(u)
    /\ cash' = StoredCash(u)
    /\ positions' = db_positions[u]

(* C2 as stated: a buy whose cost exceeds cash always comes back as an     *)
(* order with status rejected, never as an error.                          *)
C2_AlwaysRejectedResult ==
    ret.op = "submit_order" /\ ret.req.side = "buy" /\ ret.outcome = "ValueError"
      => ~(ret.req.qty * ret.ref > ret.cash)

(* C2, amended: a buy whose cost at the reference price exceeds cash is    *)
(* refused with ValueError and no order is stored; a market buy whose cost *)
(* at the reference price is covered but whose cost at the slipped fill    *)
(* price is not comes back with status rejected; either way cash and       *)
(* positions stay as they were.                                            *)
C2_RefusedOrRejected ==
    [][ret'.op = "submit_order" /\ ret'.req.side = "buy" =>
         LET u == ret'.uid
             q == ret'.req.qty
         IN /\ q * ret'.ref > StoredCash(u) =>
                 ret'.outcome = "ValueError" /\ NothingStored(u)
            /\ /\ q * ret'.ref <= StoredCash(u)
               /\ ret'.req.type = "market"
               /\ q * Last(ret'.log).price > StoredCash(u)
               => StoredUntouched(u, "rejected")]_vars

(* a market buy that the reference price lets through and the slipped      *)
(* price rejects                                                           *)
C2_Witness ==
    /\ ret.op = "submit_order" /\ ret.req.side = "buy" /\ ret.outcome = "ok"
    /\ ret.order.status = "rejected"
    /\ ret.req.qty * ret.ref <= ret.cash
    /\ ret.req.qty * ret.order.filled_avg_price > ret.cash

(* C3 as stated: once an order is filled or rejected, in memory or in the  *)
(* tables, no later call changes its status, and no order returns to new.  *)
C3_StatusTerminal ==
    [][/\ \A i \in 1..Len(orders), j \in 1..Len(orders') :
            /\ orders[i].status \in {"filled", "rejected"}
            /\ orders'[j].id = orders[i].id
            => orders'[j].status = orders[i].status
       /\ \A u \in Users : \A i \in 1..Len(db_orders[u]), j \in 1..Len(db_orders'[u]) :
            /\ db_orders[u][i].status \in {"filled", "rejected"}
            /\ db_orders'[u][j].id = db_orders[u][i].id
            => db_orders'[u][j].status = db_orders[u][i].status]_vars

(* the same, for the orders of the default user alone *)
C3_StatusTerminalDefault ==
    [][ret.uid = DefaultUser /\ ret'.uid = DefaultUser =>
         \A i \in 1..Len(orders), j \in 1..Len(orders') :
            /\ orders[i].status \in {"filled", "rejected"}
            /\ orders'[j].id = orders[i].id
            => orders'[j].status = orders[i].status]_vars

(* C4 as stated: a pending limit order stays new in a pass whose price is  *)
(* on the wrong side of its limit, and is filled in the pass whose price   *)
(* reaches it.                                                             *)
C4_TriggeredIsFilled ==
    \A e \in Log : e.via = "match" /\ e.type = "limit" =>
      LET reached == IF e.side = "buy" THEN e.ref <= e.limit_price
                     ELSE e.ref >= e.limit_price
      IN e.status = IF reached THEN "filled" ELSE "new"

(* C4, amended: in a matching pass a pending limit buy stays new when the  *)
(* price obtained is above limit_price; when it is <= limit_price the      *)
(* order is filled at that price if cash covers qty * price and rejected   *)
(* if not (a limit sell: price >= limit_price, held quantity >= qty).      *)
C4_LimitTrigger ==
    \A e \in Log : e.via = "match" /\ e.type = "limit" =>
      LET reached == IF e.side = "buy" THEN e.ref <= e.limit_price
                     ELSE e.ref >= e.limit_price
          can == IF e.side = "buy" THEN e.cash_before >= e.qty * e.ref
                 ELSE e.pos_before.qty >= e.qty
      IN /\ e.status = IF ~reached THEN "new"
                       ELSE IF can THEN "filled" ELSE "rejected"
         /\ \E i \in 1..Len(orders) :
              /\ orders[i].id = e.id
              /\ orders[i].status = e.status
              /\ e.status = "filled" =>
                   /\ orders[i].filled_avg_price = e.ref
                   /\ e.price = e.ref
                   /\ IF e.side = "buy" THEN e.price <= e.limit_price
                      ELSE e.price >= e.limit_price

(* a limit buy filled in a pass whose price is exactly its limit *)
C4_Witness ==
    \E e \in Log : /\ e.via = "match" /\ e.type = "limit" /\ e.side = "buy"
                   /\ e.status = "filled" /\ e.ref = e.limit_price

(* a limit buy left new by a pass *)
C4_WitnessWaits ==
    \E e \in Log : /\ e.via = "match" /\ e.type = "limit" /\ e.side = "buy"
                   /\ e.status = "new" /\ e.ref > e.limit_price

(* C5: a fill that increases a position sets avg_entry_price to            *)
(* (old_qty*old_avg + delta*fill_price) / new_qty (to the nearest unit); a *)
(* fill that reduces it without reaching zero leaves avg_entry_price.      *)
C5_CostBasis ==
    \A e \in Log : e.status = "filled" =>
      IF e.side = "buy"
      THEN /\ e.pos_after.qty = e.pos_before.qty + e.qty
           /\ 2 * Abs(e.pos_after.avg_entry_price * e.pos_after.qty
                      - (e.pos_before.qty * e.pos_before.avg_entry_price
                         + e.qty * e.price)) <= e.pos_after.qty
      ELSE /\ e.pos_after.qty = e.pos_before.qty - e.qty
           /\ e.pos_after.qty # 0 =>
                e.pos_after.avg_entry_price = e.pos_before.avg_entry_price

(* a buy at another price than the cost basis of the quantity already held *)
C5_Witness ==
    \E e \in Log : /\ e.status = "filled" /\ e.side = "buy"
                   /\ e.pos_before.qty > 0
                   /\ e.price # e.pos_before.avg_entry_price
                   /\ e.pos_after.avg_entry_price # e.price

(* a sell that leaves part of the position *)
C5_WitnessReduce ==
    \E e \in Log : /\ e.status = "filled" /\ e.side = "sell"
                   /\ e.pos_after.qty > 0
                   /\ e.price # e.pos_before.avg_entry_price

(* the filled orders of a list of order dicts: what they add to cash, and  *)
(* how many they are                                                       *)
RECURSIVE NetFilled(_)
NetFilled(os) ==
    IF os = <<>> THEN 0
    ELSE LET o == Head(os)
             amount == o.qty * o.filled_avg_price
         IN (IF o.status # "filled" THEN 0
             ELSE IF o.side = "buy" THEN -amount ELSE amount)
            + NetFilled(Tail(os))

RECURSIVE NumFilled(_)
NumFilled(os) ==
    IF os = <<>> THEN 0
    ELSE (IF Head(os).status = "filled" THEN 1 ELSE 0) + NumFilled(Tail(os))

(* the rows of an account, as order dicts *)
StoredOrders(u) == [i \in 1..Len(db_orders[u]) |-> LoadOrder(db_orders[u][i])]

(* half a cent: what the Numeric(15,2) balance column can round away *)
HalfCent == Scale \div 200

(* C6 as stated: cash equals starting_balance minus the filled buys plus   *)
(* the filled sells (qty * filled_price each), in memory and in every      *)
(* stored account.                                                         *)
C6_CashReconciledExactly ==
    /\ cash = start_cash + NetFilled(orders)
    /\ \A u \in Accounts :
         db_accounts[u].current_balance
           = db_accounts[u].starting_balance + NetFilled(StoredOrders(u))

(* C6, amended: cash differs from starting_balance minus the filled buys   *)
(* plus the filled sells by at most half a cent for each filled order (the *)
(* stored balance is rounded to cents); a fill changes cash by exactly     *)
(* qty * filled_price, and a filled market buy of q on a flat symbol       *)
(* creates the position (q, avg = filled_price).                           *)
C6_CashReconciled ==
    /\ Abs(cash - (start_cash + NetFilled(orders)))
         <= HalfCent * NumFilled(orders)
    /\ \A u \in Accounts :
         Abs(db_accounts[u].current_balance
             - (db_accounts[u].starting_balance + NetFilled(StoredOrders(u))))
           <= HalfCent * NumFilled(StoredOrders(u))
    /\ \A e \in Log : e.status = "filled" =>
         /\ e.cash_after = IF e.side = "buy" THEN e.cash_before - e.qty * e.price
                           ELSE e.cash_before + e.qty * e.price
         /\ \E i \in 1..Len(orders) :
              orders[i].id = e.id /\ orders[i].filled_avg_price = e.price
         /\ e.via = "submit" /\ e.side = "buy" /\ e.pos_before.qty = 0 =>
              /\ cash = e.cash_after
              /\ positions[e.symbol] = [qty |-> e.qty, avg_entry_price |-> e.price]

(* a market buy on a flat symbol was filled at a price that is not a whole *)
(* number of cents, and the stored balance has lost the fraction           *)
C6_Witness ==
    /\ \E e \in Log : /\ e.via = "submit" /\ e.side = "buy" /\ e.status = "filled"
                      /\ e.pos_before.qty = 0
    /\ db_accounts[ret.uid].current_balance # cash
    /\ db_accounts[ret.uid].current_balance
         # db_accounts[ret.uid].starting_balance + NetFilled(StoredOrders(ret.uid))

RECURSIVE Worth(_, _, _)
Worth(pos, px, syms) ==
    IF syms = {} THEN 0
    ELSE LET s == CHOOSE x \in syms : TRUE
         IN pos[s].qty * px[s] + Worth(pos, px, syms \ {s})

(* C7: get_account returns equity = portfolio_value = cash + the sum over  *)
(* the open positions of qty * current price, on the state the matching    *)
(* pass of the same call left.                                             *)
C7_Equity ==
    ret.op = "get_account" =>
      /\ ret.cash = cash
      /\ ret.equity = cash + Worth(positions, ret.px, DOMAIN positions)
      /\ ret.portfolio_value = ret.equity

(* a get_account whose matching pass filled an order and left a position   *)
(* priced away from its cost                                               *)
C7_Witness ==
    /\ ret.op = "get_account"
    /\ \E e \in Log : e.status = "filled"
    /\ \E s \in DOMAIN positions : ret.px[s] # positions[s].avg_entry_price

(* C8: a market sell at submission, or a limit sell that triggers in a     *)
(* matching pass, for more than the quantity held of the symbol (none      *)
(* held included) ends with status rejected and changes neither cash nor   *)
(* positions.                                                              *)
C8_OversellRejected ==
    \A e \in Log :
      /\ e.side = "sell" /\ e.pos_before.qty < e.qty
      /\ \/ e.via = "submit" /\ e.type = "market"
         \/ e.via = "match" /\ e.type = "limit" /\ e.ref >= e.limit_price
      => /\ e.status = "rejected"
         /\ e.cash_after = e.cash_before
         /\ e.pos_after = e.pos_before
         /\ \E i \in 1..Len(orders) :
              orders[i].id = e.id /\ orders[i].status = "rejected"
         /\ e.via = "submit" =>
              /\ ret.order.status = "rejected"
              /\ cash = e.cash_before
              /\ PosOf(positions, e.symbol) = e.pos_before
              /\ db_accounts[ret.uid].current_balance = e.cash_before
              /\ db_positions[ret.uid] = positions
              /\ Last(db_orders[ret.uid]).status = "rejected"

(* a market sell of more than the quantity held *)
C8_Witness ==
    \E e \in Log : /\ e.via = "submit" /\ e.type = "market" /\ e.side = "sell"
                   /\ 0 < e.pos_before.qty /\ e.pos_before.qty < e.qty
                   /\ e.status = "rejected"

(* a market sell with nothing held *)
C8_WitnessNone ==
    \E e \in Log : /\ e.via = "submit" /\ e.type = "market" /\ e.side = "sell"
                   /\ e.pos_before.qty = 0 /\ e.status = "rejected"

(* a limit sell that triggers with nothing held *)
C8_WitnessMatch ==
    \E e \in Log : /\ e.via = "match" /\ e.type = "limit" /\ e.side = "sell"
                   /\ e.ref >= e.limit_price
                   /\ e.pos_before.qty < e.qty /\ e.status = "rejected"

(* C9: every filled market buy has ref <= filled price <= ref * 1.005 and  *)
(* every filled market sell ref * 0.995 <= filled price <= ref, ref being  *)
(* the price obtained for that submission.                                 *)
C9_SlippageBounded ==
    \A e \in Log : e.via = "submit" /\ e.type = "market" /\ e.status = "filled" =>
      /\ ret.order.filled_avg_price = e.price
      /\ ret.ref = e.ref
      /\ IF e.side = "buy"
         THEN e.ref <= e.price /\ 1000 * e.price <= (1000 + SlipMax) * e.ref
         ELSE (1000 - SlipMax) * e.ref <= 1000 * e.price /\ e.price <= e.ref

(* market fills at the largest slippage, each way *)
C9_Witness ==
    \E e \in Log : /\ e.via = "submit" /\ e.type = "market" /\ e.status = "filled"
                   /\ e.side = "sell"
                   /\ 1000 * e.price = (1000 - SlipMax) * e.ref

C9_WitnessBuy ==
    \E e \in Log : /\ e.via = "submit" /\ e.type = "market" /\ e.status = "filled"
                   /\ e.side = "buy"
                   /\ 1000 * e.price = (1000 + SlipMax) * e.ref

(* C10 as stated: a limit or stop submission always stores an order with   *)
(* status new, whatever the price and the account's cash.                  *)
C10_AlwaysStoredNew ==
    ret.op = "submit_order" /\ ret.req.type # "market"
      => ret.outcome = "ok" /\ ret.order.status = "new"

(* C10, amended: a limit or stop submission stores the order with status   *)
(* new and leaves cash, positions and trades as they were, whatever the    *)
(* price, unless it is a buy with qty * current price above the account's  *)
(* cash: that one is refused with ValueError and nothing is stored.        *)
C10_PendingStoredNew ==
    [][ret'.op = "submit_order" /\ ret'.req.type # "market" =>
         LET u == ret'.uid
         IN IF ret'.req.side = "buy" /\ ret'.req.qty * ret'.ref > StoredCash(u)
            THEN ret'.outcome = "ValueError" /\ NothingStored(u)
            ELSE /\ StoredUntouched(u, "new")
                 /\ db_trades' = db_trades
                 /\ ret'.order.filled_qty = 0
                 /\ ret'.order.filled_avg_price = 0]_vars

(* a limit buy stored new although the price is already at or under its    *)
(* limit                                                                   *)
C10_Witness ==
    /\ ret.op = "submit_order" /\ ret.outcome = "ok"
    /\ ret.req.type = "limit" /\ ret.req.side = "buy"
    /\ ret.order.status = "new"
    /\ ret.ref <= ret.req.limit_price
    /\ Last(db_orders[ret.uid]).status = "new"

(* a stop order stored new *)
C10_WitnessStop ==
    /\ ret.op = "submit_order" /\ ret.outcome = "ok"
    /\ ret.req.type = "stop" /\ ret.order.status = "new"

(* the price a call made now would obtain without a fetch: the cached one, *)
(* while it is younger than the TTL                                        *)
FreshPrice(symbol) ==
    IF price_cache[symbol] # NoCache /\ price_cache[symbol].age < TTL
    THEN price_cache[symbol].price ELSE None

(* the order's trigger condition holds at price p *)
TriggerHolds(o, p) ==
    /\ o.type = "limit"
    /\ p # None
    /\ IF o.side = "buy" THEN p <= o.limit_price ELSE p >= o.limit_price

(* C11 as stated: after get_account, get_positions, list_orders or         *)
(* submit_order no order of the account is new while its trigger condition *)
(* holds at the current price.                                             *)
C11_EveryCallMatches ==
    ret.op \in {"get_account", "get_positions", "list_orders", "submit_order"}
      /\ ret.outcome = "ok"
      => \A i \in 1..Len(orders) :
           ~(orders[i].status = "new"
             /\ TriggerHolds(orders[i], FreshPrice(orders[i].symbol)))

(* C11, amended: get_account and get_positions run a matching pass over    *)
(* the pending orders of the account they loaded, so an order that is new  *)
(* after the call was evaluated at a price that does not trigger it;       *)
(* list_orders and submit_order run no pass: they leave the status of      *)
(* every stored order as it was, and list_orders returns them so.          *)
C11_ReadsMatch ==
    [][/\ ret'.op \in {"get_account", "get_positions"} =>
            \A i \in 1..Len(orders') : orders'[i].status = "new" =>
              \E k \in 1..Len(ret'.log) :
                LET e == ret'.log[k]
                IN /\ e.via = "match" /\ e.id = orders'[i].id /\ e.status = "new"
                   /\ ~TriggerHolds(orders'[i], e.ref)
       /\ ret'.op \in {"list_orders", "submit_order"} /\ ret'.outcome = "ok" =>
            LET u == ret'.uid
            IN /\ \A i \in 1..Len(db_orders[u]) :
                    /\ orders'[i].id = db_orders[u][i].id
                    /\ orders'[i].status = db_orders[u][i].status
                    /\ db_orders'[u][i].status = db_orders[u][i].status
               /\ ret'.op = "list_orders" =>
                    /\ Len(ret'.list) = Len(db_orders[u])
                    /\ \A i \in 1..Len(db_orders[u]) :
                         \E j \in 1..Len(ret'.list) :
                           /\ ret'.list[j].id = db_orders[u][i].id
                           /\ ret'.list[j].status = db_orders[u][i].status]_vars

(* list_orders returns as new a limit order whose trigger condition holds  *)
(* at the price in the cache                                               *)
C11_Witness ==
    /\ ret.op = "list_orders"
    /\ \E j \in 1..Len(ret.list) :
         /\ ret.list[j].status = "new"
         /\ TriggerHolds(ret.list[j], FreshPrice(ret.list[j].symbol))

(* the pass of a get_positions filled one order and left another new *)
C11_WitnessPass ==
    /\ ret.op = "get_positions"
    /\ \E e \in Log : e.via = "match" /\ e.status = "filled"
    /\ \E e \in Log : e.via = "match" /\ e.status = "new"

(* C12: reset_account(b) followed by get_account of the same account       *)
(* returns cash = b and equity = b; followed by get_positions or           *)
(* list_orders it returns an empty list.                                   *)
C12_ResetThenRead ==
    [][ret.op = "reset_account" /\ ret'.uid = ret.uid =>
         /\ ret'.op = "get_account" =>
              /\ ret'.cash = ret.cash /\ ret'.equity = ret.cash
              /\ ret'.portfolio_value = ret.cash
         /\ ret'.op = "get_positions" => ret'.list = {}
         /\ ret'.op = "list_orders" => ret'.list = <<>>]_vars

(* the account had used every order id of the run, some filled, and a      *)
(* get_account after its reset reports the reset balance                   *)
C12_Witness ==
    /\ ret.op = "get_account" /\ ret.uid = DefaultUser
    /\ next_id = MaxOrders
    /\ db_orders[OtherUser] = <<>>
    /\ db_orders[DefaultUser] = <<>>
    /\ start_cash \in ResetBalances
    /\ ret.cash = start_cash /\ ret.equity = start_cash

(* C13 as stated: a call for account A leaves A's stored cash, positions   *)
(* and order statuses equal to its resulting state, and the stored cash,   *)
(* positions and orders of every other account as they were.               *)
C13_AccountIsolation ==
    [][/\ ret'.op \in {"submit_order", "get_account", "get_positions"}
       /\ ret'.outcome = "ok"
       => LET a == ret'.uid
          IN /\ db_accounts'[a].current_balance = Numeric2(cash')
             /\ DOMAIN db_positions'[a] = DOMAIN positions'
             /\ \A sy \in DOMAIN positions' :
                  db_positions'[a][sy] = SavePosition(positions'[sy])
             /\ Len(db_orders'[a]) = Len(orders')
             /\ \A i \in 1..Len(orders') :
                  /\ db_orders'[a][i].id = orders'[i].id
                  /\ db_orders'[a][i].status = orders'[i].status
             /\ \A b \in Users \ {a} :
                  /\ db_accounts'[b] = db_accounts[b]
                  /\ db_positions'[b] = db_positions[b]
                  /\ db_orders'[b] = db_orders[b]]_vars

(* the call just made saved the state it left: a submission that returned  *)
(* an order, or a pass of the default user that changed an order           *)
SaveSucceeded ==
    \/ ret.op = "submit_order" /\ ret.outcome = "ok"
    \/ /\ ret.op \in {"get_account", "get_positions"} /\ ret.uid = DefaultUser
       /\ \E e \in Log : e.status # "new"

(* what loading the account of the call just made gives *)
Reloaded == _load_state(State, ret.uid)

SameOrders(L) ==
    /\ Len(L.orders) = Len(orders)
    /\ \A i \in 1..Len(orders) :
         /\ L.orders[i].id = orders[i].id
         /\ L.orders[i].status = orders[i].status
         /\ L.orders[i].symbol = orders[i].symbol
         /\ L.orders[i].qty = orders[i].qty

(* C14 as stated: after a successful save, loading the account gives the   *)
(* same cash, the same positions and the same orders with the same         *)
(* statuses as the state that was saved.                                   *)
C14_RoundTripExact ==
    SaveSucceeded =>
      /\ Reloaded.cash = cash
      /\ Reloaded.positions = positions
      /\ SameOrders(Reloaded)

(* C14, amended: after a successful save, loading the account gives the    *)
(* saved cash rounded to cents, the same positions and the same orders     *)
(* with the same statuses; the stored rows are those of the saved state    *)
(* and no others.                                                          *)
C14_RoundTrip ==
    SaveSucceeded =>
      /\ Reloaded.cash = Numeric2(cash)
      /\ 2 * Abs(Reloaded.cash - cash) <= Scale \div 100
      /\ Reloaded.positions = positions
      /\ SameOrders(Reloaded)
      /\ DOMAIN db_positions[ret.uid] = DOMAIN positions
      /\ {db_orders[ret.uid][i].id : i \in 1..Len(db_orders[ret.uid])}
           = {orders[i].id : i \in 1..Len(orders)}

(* a save of a filled order and of cash that is not a whole number of      *)
(* cents                                                                   *)
C14_Witness ==
    /\ SaveSucceeded
    /\ \E i \in 1..Len(orders) : orders[i].status = "filled"
    /\ positions # EmptyPositions
    /\ Numeric2(cash) # cash

(* the stored cash, positions and orders of an account *)
Stored(u) == <<db_accounts[u], db_positions[u], db_orders[u]>>

(* C15: in every step each account's stored cash, positions and orders are *)
(* all as they were before, or all those of the in-memory state the call   *)
(* left (a save that went through), or all those of a reset; a save that   *)
(* fails at any step leaves the three as they were.                        *)
C15_SaveAllOrNothing ==
    [][\A u \in Users :
         \/ Stored(u)' = Stored(u)
         \/ /\ ret'.op = "reset_account" /\ ret'.uid = u
            /\ db_accounts'[u].current_balance = Numeric2(ret'.cash)
            /\ db_positions'[u] = EmptyPositions
            /\ db_orders'[u] = <<>>
         \/ /\ ret'.op \in {"submit_order", "get_account", "get_positions"}
            /\ ret'.uid = u
            /\ db_accounts'[u].current_balance = Numeric2(cash')
            /\ db_accounts'[u].starting_balance = db_accounts[u].starting_balance
            /\ db_positions'[u] = [sy \in DOMAIN positions' |->
                                     SavePosition(positions'[sy])]
            /\ db_orders'[u] = [i \in 1..Len(orders') |-> SaveOrder(orders'[i])]]_vars

(* the call just made filled an order and its save failed: the stored      *)
(* account has neither the fill's cash nor its order status                *)
FailedSaveAfterFill ==
    /\ ret.op \in {"submit_order", "get_account", "get_positions"}
    /\ ret.outcome = "ok"
    /\ \E e \in Log :
         /\ e.status = "filled"
         /\ \A i \in 1..Len(db_orders[ret.uid]) :
              db_orders[ret.uid][i].id = e.id =>
                db_orders[ret.uid][i].status # "filled"

(* a fill whose save failed: memory has it, the tables have nothing of it *)
C15_Witness ==
    /\ FailedSaveAfterFill
    /\ db_accounts[ret.uid].current_balance # Numeric2(cash)
    /\ db_positions[ret.uid] # positions
    /\ Len(db_orders[ret.uid]) # Len(orders)

(* C16 as stated: after a save that failed following a fill, the next      *)
(* get_account, get_positions or list_orders for the account still reports *)
(* the fill: the order is filled, and unless that call fills more, cash    *)
(* and positions are those the fill left.                                  *)
C16_MemoryAuthoritative ==
    [][/\ FailedSaveAfterFill
       /\ ret'.op \in {"get_account", "get_positions", "list_orders"}
       /\ ret'.uid = ret.uid
       => /\ \A e \in Log : e.status = "filled" =>
               \E i \in 1..Len(orders') :
                 orders'[i].id = e.id /\ orders'[i].status = "filled"
          /\ ret'.log = <<>> => cash' = cash /\ positions' = positions]_vars

(* the ids of the orders that are filled, in memory or in the tables *)
FilledIds ==
    {orders[i].id : i \in {j \in 1..Len(orders) : orders[j].status = "filled"}}
    \cup UNION {{db_orders[u][i].id :
                   i \in {j \in 1..Len(db_orders[u]) :
                            db_orders[u][j].status = "filled"}} : u \in Users}

(* C18 as stated: get_trade_snapshot returns a non-empty snapshot for      *)
(* every filled order and an empty result for an order id that was never   *)
(* filled, and a snapshot once captured is never replaced.                 *)
C18_SnapshotPerFill ==
    [][/\ \A id \in FilledIds' :
            get_trade_snapshot(State, id)' # NoSnapshot
       /\ \A id \in (1..MaxOrders) \ FilledIds' :
            (\A t \in db_trades' : t.id # id) =>
              get_trade_snapshot(State, id)' = NoSnapshot
       /\ \A id \in DOMAIN snapshots \cap DOMAIN snapshots' :
            snapshots'[id] = snapshots[id]]_vars

(* C19: when the fetch fails the lookup returns the cached price of the    *)
(* symbol if there is one, stale or not, and otherwise the mock price; it  *)
(* leaves the cache entry as it was and raises nothing.                    *)
C19_OracleNeverRaises ==
    ret.op = "get_price" =>
      /\ ret.outcome = "ok"
      /\ ret.ref # None
      /\ ret.fetched /\ ~ret.ans.ok =>
           /\ ret.ref = IF ret.cache_before # NoCache THEN ret.cache_before.price
                        ELSE ret.ans.p
           /\ ret.cache_after = ret.cache_before

(* a failed fetch answered from an entry older than the TTL *)
C19_Witness ==
    /\ ret.op = "get_price" /\ ret.fetched /\ ~ret.ans.ok
    /\ ret.cache_before # NoCache /\ ret.cache_before.age > TTL
    /\ ret.ref = ret.cache_before.price

(* a failed fetch with no entry: the mock price *)
C19_WitnessMock ==
    /\ ret.op = "get_price" /\ ret.fetched /\ ~ret.ans.ok
    /\ ret.cache_before = NoCache /\ ret.ref \in MockSet

(* C20: the lookup goes to the quote source exactly when the symbol has no *)
(* cache entry or its entry is TTL seconds old or older; otherwise it      *)
(* returns the cached price; the entry is written only by a successful     *)
(* fetch, as (price fetched, age 0).                                       *)
C20_CacheStaleness ==
    ret.op = "get_price" =>
      /\ ret.fetched <=> (ret.cache_before = NoCache \/ ret.cache_before.age >= TTL)
      /\ ~ret.fetched =>
           /\ ret.ref = ret.cache_before.price
           /\ ret.cache_after = ret.cache_before
      /\ ret.cache_after # ret.cache_before => ret.fetched /\ ret.ans.ok
      /\ ret.fetched /\ ret.ans.ok =>
           /\ ret.ref = ret.ans.p
           /\ ret.cache_after = [price |-> ret.ans.p, age |-> 0]

(* a lookup exactly TTL seconds after the fetch goes to the source and     *)
(* obtains another price                                                   *)
C20_Witness ==
    /\ ret.op = "get_price" /\ ret.fetched /\ ret.ans.ok
    /\ ret.cache_before # NoCache /\ ret.cache_before.age = TTL
    /\ ret.ref # ret.cache_before.price

(* a lookup under TTL seconds answered from the cache although the source  *)
(* has another price                                                       *)
C20_WitnessFresh ==
    /\ ret.op = "get_price" /\ ~ret.fetched
    /\ ret.cache_before.age > 0 /\ ret.cache_before.age < TTL
    /\ ret.ans.ok /\ ret.ans.p # ret.ref

(* the call of thread t run alone from state M *)
Alone(M, t) ==
    LET loc == threads.th[t] IN
    submit_order([M EXCEPT !.log = <<>>], loc.rq.symbol, loc.rq.qty,
                 loc.rq.side, loc.rq.type, loc.rq.limit_price, DefaultUser,
                 loc.a, loc.slip, loc.id).M

(* the two calls one after the other, t first *)
Serial(t, u) == Alone(Alone(threads.start, t), u)

(* what an order is, apart from the timestamps a load does not restore *)
Essence(o) == <<o.id, o.side, o.qty, o.status, o.filled_avg_price>>

OrderSet(os) == {Essence(os[i]) : i \in 1..Len(os)}

RowSet(rows) == {Essence(LoadOrder(rows[i])) : i \in 1..Len(rows)}

(* cash (to the cent), positions and orders, in memory and as stored *)
Outcome(M) ==
    <<Numeric2(M.cash), M.positions, OrderSet(M.orders),
      M.db_accounts[DefaultUser].current_balance,
      M.db_positions[DefaultUser], RowSet(M.db_orders[DefaultUser])>>

(* C17: when the two interleaved submit_order calls have returned, cash,   *)
(* positions and orders are those one of the two serial executions leaves, *)
(* and cash is not negative.                                               *)
C17_Serializable ==
    AllDone =>
      /\ \E t \in Threads : \E u \in Threads \ {t} :
           Outcome(State) = Outcome(Serial(t, u))
      /\ cash >= 0
      /\ StoredCash(DefaultUser) >= 0

(* a request the validation is to refuse *)
Invalid(rq) ==
    \/ rq.side \notin {"buy", "sell"}
    \/ rq.type \notin {"market", "limit"}
    \/ rq.qty <= 0

(* C21: a request with an invalid side, an invalid type or a non-positive  *)
(* quantity is refused, and it leaves the stored orders, the trades, the   *)
(* snapshots, the stored cash and the stored positions as they were.       *)
C21_InvalidRejected ==
    [][ret'.op = "post_order" /\ Invalid(ret'.req) =>
         /\ ret'.outcome # "ok"
         /\ UNCHANGED <<db_orders, db_trades, snapshots, db_accounts,
                        db_positions>>]_vars

(* the columns of an order row that are fixed once it is filled *)
Fixed(r) ==
    <<r.symbol, r.side, r.qty, r.order_type, r.limit_price, r.filled_price,
      r.filled_at>>

(* C22: the stored row of a filled order keeps its filled_price and        *)
(* filled_at (and its symbol, side, quantity, type and limit_price)        *)
(* through every later call, as long as the row exists.                    *)
C22_FilledImmutable ==
    [][\A u \in Users :
         \A i \in 1..Len(db_orders[u]), j \in 1..Len(db_orders'[u]) :
           /\ db_orders[u][i].status = "filled"
           /\ db_orders'[u][j].id = db_orders[u][i].id
           => Fixed(db_orders'[u][j]) = Fixed(db_orders[u][i])]_vars

(* C23: every order a call has filled has exactly one Trade row, and the   *)
(* row belongs to the user the call was made for.                          *)
C23_TradePerFill ==
    \A e \in Log : e.status = "filled" =>
      /\ Cardinality({t \in db_trades : t.id = e.id}) = 1
      /\ \A t \in db_trades : t.id = e.id => t.user_id = ret.uid

(* C24: a buy whose cost at the reference price, qty * price before        *)
(* slippage, exceeds the account's cash is answered with HTTP 400 (the     *)
(* adapter's ValueError), and only such a buy is; the tables, the          *)
(* snapshots and the trades stay as they were and memory holds the         *)
(* account as stored, with no order appended.                              *)
C24_InsufficientFundsRefused ==
    [][ret'.op = "post_order" /\ ret'.ref # None =>
         LET over == ret'.req.side = "buy"
                     /\ ret'.req.qty * ret'.ref > StoredCash(DefaultUser)
         IN /\ over <=> ret'.outcome = "HTTP400"
            /\ over =>
                 /\ UNCHANGED <<db_accounts, db_positions, db_orders, db_trades,
                                snapshots>>
                 /\ cash' = StoredCash(DefaultUser)
                 /\ positions' = db_positions[DefaultUser]
                 /\ Len(orders') = Len(db_orders[DefaultUser])
                 /\ ret'.order = NoOrder]_vars

(* a buy of 2 at 101.00 refused on an account holding 200.00 *)
C24_Witness ==
    /\ ret.op = "post_order" /\ ret.outcome = "HTTP400" /\ ret.ref # None
    /\ ret.req.side = "buy" /\ ret.req.qty > 0
    /\ ret.req.qty * ret.ref > cash
    /\ cash > 0

MockAnswered(r) ==
    r.op = "get_price" /\ r.fetched /\ ~r.ans.ok /\ r.cache_before = NoCache

(* C26: two lookups of a symbol that both fail with no cached entry return *)
(* the same price.                                                         *)
C26_MockDeterministic ==
    [][MockAnswered(ret) /\ MockAnswered(ret') => ret'.ref = ret.ref]_vars

RECURSIVE NetQty(_, _)
NetQty(os, s) ==
    IF os = <<>> THEN 0
    ELSE LET o == Head(os)
         IN (IF o.status # "filled" \/ o.symbol # s THEN 0
             ELSE IF o.side = "buy" THEN o.qty ELSE -o.qty)
            + NetQty(Tail(os), s)

(* the entries of pos are the non-zero net quantities of the filled orders *)
Reconciled(pos, os) ==
    \A s \in Symbols :
      /\ NetQty(os, s) >= 0
      /\ IF NetQty(os, s) = 0 THEN s \notin DOMAIN pos
         ELSE s \in DOMAIN pos /\ pos[s].qty = NetQty(os, s)

(* C28: for each symbol the quantity held is the quantity of the filled    *)
(* buys minus that of the filled sells, with no entry when that is 0, and  *)
(* it is never negative; in memory and in every stored account.            *)
C28_PositionReconciled ==
    /\ Reconciled(positions, orders)
    /\ \A u \in Accounts : Reconciled(db_positions[u], StoredOrders(u))

(* the entry of the pass of the call just made for the order with this id *)
Evaluated(r, id, status) ==
    \E i \in 1..Len(r.log) : r.log[i].id = id /\ r.log[i].status = status

RowOf(rows, id) == {rows[i] : i \in {j \in 1..Len(rows) : rows[j].id = id}}

(* the account row the first call of a user creates *)
FreshAccount ==
    [starting_balance |-> Numeric2(DefaultBalance),
     current_balance |-> Numeric2(DefaultBalance)]

(* the call has left the account of u as its load finds it (a user with no *)
(* account is given one), and every table as it was                        *)
LeftAsLoaded(u) ==
    /\ cash' = StoredCash(u)
    /\ positions' = db_positions[u]
    /\ orders' = StoredOrders(u)
    /\ UNCHANGED <<db_trades, db_positions, db_orders>>
    /\ IF db_accounts[u] = NoAccount
       THEN /\ snapshots' = EmptySnapshots
            /\ db_accounts' = [db_accounts EXCEPT ![u] = FreshAccount]
       ELSE UNCHANGED <<snapshots, db_accounts>>

(* the pending orders of u the call has evaluated and not triggered are    *)
(* as they were, in memory and in the table                                *)
PendingKept(u) ==
    /\ Len(orders') = Len(db_orders[u])
    /\ \A i \in 1..Len(db_orders[u]) :
         Evaluated(ret', db_orders[u][i].id, "new") =>
           /\ orders'[i] = LoadOrder(db_orders[u][i])
           /\ \A v \in Users :
                RowOf(db_orders'[v], db_orders[u][i].id)
                  = RowOf(db_orders[v], db_orders[u][i].id)

(* C27: the matching pass of get_account and get_positions starts from the *)
(* account as loaded.  A pass in which no order leaves new leaves cash,    *)
(* positions, every order, the trades and the snapshots as loaded and      *)
(* every table as it was (no save); in any pass, a pending order that did  *)
(* not trigger is left as it was, in memory and in the table.              *)
C27_PassFrame ==
    [][ret'.op \in {"get_account", "get_positions"} =>
         /\ (\A i \in 1..Len(ret'.log) : ret'.log[i].status = "new")
              => LeftAsLoaded(ret'.uid)
         /\ PendingKept(ret'.uid)]_vars

(* a pass has filled one pending order and left another pending; a filled  *)
(* order from before is stored with its filled_at                          *)
C27_Witness ==
    /\ ret.op \in {"get_account", "get_positions"}
    /\ \E i, j \in 1..Len(ret.log) :
         ret.log[i].status = "filled" /\ ret.log[j].status = "new"

(* a pass in which the one pending order did not trigger, after a fill     *)
(* whose filled_at is in the table                                         *)
C27_WitnessQuiet ==
    /\ ret.op \in {"get_account", "get_positions"}
    /\ Len(ret.log) = 1 /\ ret.log[1].status = "new"
    /\ \E i \in 1..Len(db_orders[ret.uid]) :
         db_orders[ret.uid][i].status = "filled"
         /\ db_orders[ret.uid][i].filled_at # None

(* fill data of an order dict, and of an order row *)
CarriesFillData(o) ==
    IF o.status = "filled"
    THEN o.filled_qty = o.qty /\ o.filled_avg_price > 0 /\ o.filled_at # None
    ELSE o.filled_qty = 0 /\ o.filled_avg_price = 0 /\ o.filled_at = None

RowCarriesFillData(r) ==
    IF r.status = "filled"
    THEN r.filled_price # None /\ r.filled_price > 0 /\ r.filled_at # None
    ELSE r.filled_price \in {0, None} /\ r.filled_at = None

(* C29: an order that is new or rejected has filled_qty 0, filled price 0  *)
(* and no filled_at, and a filled order has filled_qty = qty, a positive   *)
(* filled price and a filled_at: in the value submit_order returns, in     *)
(* memory and in the table.                                                *)
C29_OnlyFilledCarryFillData ==
    /\ ret.op = "submit_order" /\ ret.outcome = "ok" => CarriesFillData(ret.order)
    /\ \A i \in 1..Len(orders) : CarriesFillData(orders[i])
    /\ \A u \in Users : \A i \in 1..Len(db_orders[u]) :
         RowCarriesFillData(db_orders[u][i])

(* C30: a matching pass moves limit orders only; an order of another type  *)
(* that is stored new stays new, in memory and in the table, through every *)
(* call for as long as it exists.                                          *)
C30_StopNeverMatched ==
    [][/\ \A i \in 1..Len(ret'.log) :
            ret'.log[i].via = "match" /\ ret'.log[i].status # "new"
              => ret'.log[i].type = "limit"
       /\ \A u \in Users :
            \A i \in 1..Len(db_orders[u]), j \in 1..Len(db_orders'[u]) :
              /\ db_orders[u][i].order_type \notin {"market", "limit"}
              /\ db_orders[u][i].status = "new"
              /\ db_orders'[u][j].id = db_orders[u][i].id
              => db_orders'[u][j].status = "new"
       /\ \A j \in 1..Len(orders') :
            orders'[j].type \notin {"market", "limit"} => orders'[j].status = "new"]_vars

(* a pass has evaluated a stop buy and left it new at a price at which a   *)
(* limit buy of the same pass was filled                                   *)
C30_Witness ==
    /\ ret.op \in {"get_account", "get_positions"}
    /\ \E i, j \in 1..Len(ret.log) :
         /\ ret.log[i].via = "match" /\ ret.log[i].type = "stop"
         /\ ret.log[i].status = "new"
         /\ ret.log[j].via = "match" /\ ret.log[j].type = "limit"
         /\ ret.log[j].side = "buy" /\ ret.log[j].status = "filled"
    /\ \E i \in 1..Len(orders) : orders[i].type = "stop" /\ orders[i].status = "new"

====
